---- MODULE Spec2Model ----
(***************************************************************************)
(* State-machine model of the to-do list engine of src/todo.py: the Task   *)
(* entity, the TodoList collection and its JSON persistence.               *)
(*                                                                         *)
(* The state is one TodoList object (its `tasks` list), the content of the *)
(* file it persists to, and a record `op` observing the last call: its     *)
(* name, its arguments, what it printed and the exception it let escape,   *)
(* if any. The minute datetime.now() returns and the outcome of each file  *)
(* access are inputs of the calls.                                         *)
(***************************************************************************)
EXTENDS Integers, Sequences, FiniteSets, TLC

\* ---------------------------------------------------------------- bounds
\* Longest task list the model builds by add_task.
MaxTasks == 2
\* Number of I/O failures (failed open/write/read) the environment injects.
MaxFails == 1

\* ------------------------------------------------------- Python values
\* Python's None (JSON null), kept apart from every string the model uses.
None == "<None>"
\* priority_filter=None of view_tasks: a falsy value, as None is.
NoFilter == 0

\* The keys of one saved record (save_tasks, lines 115-121).
Fields == {"description", "due_date", "priority", "completed", "created_at"}

\* datetime.now().strftime("%Y-%m-%d %H:%M") for the clock at minute t.
Stamps ==
  << "2024-01-10 09:00", "2024-01-10 09:01", "2024-01-10 09:02",
     "2024-01-10 09:03", "2024-01-10 09:04" >>
strftime(t) == Stamps[t + 1]

\* Task.__init__ without the normalisation of priority.
Task_nocoerce(description, due_date, priority, completed, t) ==
  [ description |-> description,
    due_date    |-> due_date,
    priority    |-> priority,
    completed   |-> completed,
    created_at  |-> strftime(t) ]

\* Task.__init__: the fields as given, created_at stamped from the clock,
\* a priority outside [1, 2, 3] replaced by 2.
Task(description, due_date, priority, completed, t) ==
  [ description |-> description,
    due_date    |-> due_date,
    priority    |-> IF priority \in {1, 2, 3} THEN priority ELSE 2,
    completed   |-> completed,
    created_at  |-> strftime(t) ]

\* ------------------------------------------------------------ the file
\* The content of the storage file, as json.load sees it:
\*   kind = "absent"   os.path.exists is false
\*   kind = "garbage"  text that is not JSON (also an empty or truncated file)
\*   kind = "scalar"   a JSON document that cannot be iterated (a number)
\*   kind = "list"     a JSON array; items is its elements in order
\* An element is a JSON object (isdict) with the keys `keys` and the values
\* `val` (None under a key it lacks), or something that is not an object.
AbsentFile  == [kind |-> "absent",  items |-> << >>]
GarbageFile == [kind |-> "garbage", items |-> << >>]
ScalarFile  == [kind |-> "scalar",  items |-> << >>]
ListFile(items) == [kind |-> "list", items |-> items]

NotADict ==
  [ isdict |-> FALSE, keys |-> {},
    val |-> [ description |-> None, due_date |-> None, priority |-> None,
              completed |-> None, created_at |-> None ] ]

\* The dict save_tasks builds for one task (lines 115-121).
TaskDict(task) ==
  [ isdict |-> TRUE, keys |-> Fields,
    val |-> [ description |-> task.description,
              due_date    |-> task.due_date,
              priority    |-> task.priority,
              completed   |-> task.completed,
              created_at  |-> task.created_at ] ]

\* A JSON object holding only the keys ks of a record.
Partial(val, ks) ==
  [ isdict |-> TRUE, keys |-> ks,
    val |-> [ f \in Fields |-> IF f \in ks THEN val[f] ELSE None ] ]

\* save_tasks, lines 113-121: the list of dicts, one per task, in order.
task_data_droplast(tasks) ==
  [ i \in 1..(IF Len(tasks) > 1 THEN Len(tasks) - 1 ELSE Len(tasks))
      |-> TaskDict(tasks[i]) ]

task_data(tasks) == [ i \in 1..Len(tasks) |-> TaskDict(tasks[i]) ]

\* save_tasks (lines 111-127). wfail is what the file system does to the
\* write: "none" it succeeds; "open" open(filename, 'w') raises IOError and
\* the file is left as it was; "write" the file was opened (and so
\* truncated) and json.dump raises IOError, leaving a truncated file.
\* The IOError is caught and printed.
save_tasks_silent(tasks, file, wfail) ==
  CASE wfail = "none"  -> [file |-> ListFile(task_data(tasks)), out |-> << >>]
    [] wfail = "open"  -> [file |-> file,        out |-> << >>]
    [] wfail = "write" -> [file |-> GarbageFile, out |-> << >>]

\* save_tasks that appends to the records already in the file.
save_tasks_append(tasks, file, wfail) ==
  CASE wfail = "none"  ->
         [ file |-> ListFile((IF file.kind = "list" THEN file.items ELSE << >>)
                               \o task_data(tasks)),
           out |-> << >> ]
    [] wfail = "open"  -> [file |-> file,        out |-> <<"Error saving tasks">>]
    [] wfail = "write" -> [file |-> GarbageFile, out |-> <<"Error saving tasks">>]

save_tasks(tasks, file, wfail) ==
  CASE wfail = "none"  -> [file |-> ListFile(task_data(tasks)), out |-> << >>]
    [] wfail = "open"  -> [file |-> file,        out |-> <<"Error saving tasks">>]
    [] wfail = "write" -> [file |-> GarbageFile, out |-> <<"Error saving tasks">>]

\* load_tasks, lines 141-148: the Task built from one dict of the file.
\* created_at is stamped by Task.__init__ and then overwritten by the
\* stored value, 'Unknown' when the dict has none.
LoadTask_restamp(d, t) ==
  Task(d.val.description, d.val.due_date, d.val.priority, d.val.completed, t)

\* load_tasks that does not pass the stored completed flag to Task.
LoadTask_uncompleted(d, t) ==
  [ Task(d.val.description, d.val.due_date, d.val.priority, FALSE, t)
      EXCEPT !.created_at =
        IF "created_at" \in d.keys THEN d.val.created_at ELSE "Unknown" ]

\* load_tasks that takes the stored priority as it is.
LoadTask_rawpriority(d, t) ==
  [ Task(d.val.description, d.val.due_date, d.val.priority, d.val.completed, t)
      EXCEPT !.created_at =
               IF "created_at" \in d.keys THEN d.val.created_at ELSE "Unknown",
             !.priority = d.val.priority ]

LoadTask(d, t) ==
  [ Task(d.val.description, d.val.due_date, d.val.priority, d.val.completed, t)
      EXCEPT !.created_at =
        IF "created_at" \in d.keys THEN d.val.created_at ELSE "Unknown" ]

\* The exception the body of the loop (lines 141-148) raises on element d:
\* subscripting something that is not a dict is a TypeError, a missing
\* key other than created_at is a KeyError.
ItemError(d) ==
  IF ~d.isdict THEN "TypeError"
  ELSE IF {"description", "due_date", "priority", "completed"} \subseteq d.keys
       THEN "none" ELSE "KeyError"

\* The loop of load_tasks (lines 139-148) from element i on, acc being
\* self.tasks so far; it stops at the first element that raises.
RECURSIVE LoadLoop(_, _, _, _)
LoadLoop(items, i, acc, t) ==
  IF i > Len(items) THEN [tasks |-> acc, raised |-> "none"]
  ELSE IF ItemError(items[i]) # "none"
       THEN [tasks |-> acc, raised |-> ItemError(items[i])]
       ELSE LoadLoop(items, i + 1, Append(acc, LoadTask(items[i], t)), t)

\* load_tasks (lines 129-151) on a store holding `tasks`. rfail: open() for
\* reading raises IOError. IOError and JSONDecodeError are caught and
\* printed; any other exception escapes (raised).
\* (load_tasks_noexists: without the os.path.exists test, the open of a
\* missing file raising and being printed.)
load_tasks_noexists(tasks, file, t, rfail) ==
  CASE file.kind = "absent" ->
         [tasks |-> tasks, raised |-> "none", out |-> <<"Error loading tasks">>]
    [] file.kind # "absent" /\ rfail ->
         [tasks |-> tasks, raised |-> "none", out |-> <<"Error loading tasks">>]
    [] file.kind = "garbage" /\ ~rfail ->
         [tasks |-> tasks, raised |-> "none", out |-> <<"Error loading tasks">>]
    [] file.kind = "scalar" /\ ~rfail ->
         [tasks |-> << >>, raised |-> "TypeError", out |-> << >>]
    [] file.kind = "list" /\ ~rfail ->
         [ tasks  |-> LoadLoop(file.items, 1, << >>, t).tasks,
           raised |-> LoadLoop(file.items, 1, << >>, t).raised,
           out    |-> << >> ]

load_tasks(tasks, file, t, rfail) ==
  CASE file.kind = "absent" ->
         [tasks |-> tasks, raised |-> "none", out |-> << >>]
    [] file.kind # "absent" /\ rfail ->
         [tasks |-> tasks, raised |-> "none", out |-> <<"Error loading tasks">>]
    [] file.kind = "garbage" /\ ~rfail ->
         [tasks |-> tasks, raised |-> "none", out |-> <<"Error loading tasks">>]
    [] file.kind = "scalar" /\ ~rfail ->
         [tasks |-> << >>, raised |-> "TypeError", out |-> << >>]
    [] file.kind = "list" /\ ~rfail ->
         [ tasks  |-> LoadLoop(file.items, 1, << >>, t).tasks,
           raised |-> LoadLoop(file.items, 1, << >>, t).raised,
           out    |-> << >> ]

\* Python's list indexing with index i (0-based, negative from the end) on
\* a list of length n: whether it is in range, and the 1-based position.
InRange(n, i) == (0 - n) <= i /\ i < n
PyPos(n, i) == IF i >= 0 THEN i + 1 ELSE n + i + 1

\* The list without its element at 1-based position q (list.pop).
Pop(s, q) == [ i \in 1..(Len(s) - 1) |-> IF i < q THEN s[i] ELSE s[i + 1] ]

\* ------------------------------------------------------ the operations
\* add_task (lines 65-70): build the Task (not completed), append it, save,
\* print. The description is stored as given.
add_task(tasks, file, description, due_date, priority, t, wfail) ==
  LET new_task == Task(description, due_date, priority, FALSE, t)
      appended == Append(tasks, new_task)
      sv       == save_tasks(appended, file, wfail)
  IN  [ tasks |-> appended, file |-> sv.file, saving |-> TRUE,
        out |-> sv.out \o <<"Added task">> ]

\* The loop of view_tasks (lines 81-88) from position i on; acc is the
\* lines printed so far, each the pair <<i, task>> of "{i}. {task}".
RECURSIVE ViewLoop(_, _, _, _, _)
ViewLoop(tasks, i, show_completed, priority_filter, acc) ==
  IF i > Len(tasks) THEN acc
  ELSE IF tasks[i].completed /\ ~show_completed
       THEN ViewLoop(tasks, i + 1, show_completed, priority_filter, acc)
  ELSE IF priority_filter # NoFilter /\ tasks[i].priority # priority_filter
       THEN ViewLoop(tasks, i + 1, show_completed, priority_filter, acc)
  ELSE ViewLoop(tasks, i + 1, show_completed, priority_filter,
                Append(acc, <<i, tasks[i]>>))

\* view_tasks that numbers the lines by their rank in the filtered view.
view_tasks_ranked(tasks, show_completed, priority_filter) ==
  LET shown == ViewLoop(tasks, 1, show_completed, priority_filter, << >>)
  IN  [ tasks |-> tasks,
        listed |-> [ k \in 1..Len(shown) |-> <<k, shown[k][2]>> ],
        out |-> << >> ]

\* view_tasks that filters self.tasks in place, keeping the tasks it lists.
view_tasks_prune(tasks, show_completed, priority_filter) ==
  LET shown == ViewLoop(tasks, 1, show_completed, priority_filter, << >>)
  IN  [ tasks |-> [ k \in 1..Len(shown) |-> shown[k][2] ],
        listed |-> shown,
        out |-> <<"--- To-Do List ---", "------------------">> ]

\* view_tasks (lines 72-90): the header, then either the "No tasks found"
\* notice (empty list) or the filtered lines and the footer. It reads
\* self.tasks and assigns nothing: `tasks` is the list it leaves.
view_tasks(tasks, show_completed, priority_filter) ==
  IF Len(tasks) = 0
  THEN [ tasks |-> tasks, listed |-> << >>,
         out |-> <<"--- To-Do List ---", "No tasks found">> ]
  ELSE [ tasks |-> tasks,
         listed |-> ViewLoop(tasks, 1, show_completed, priority_filter, << >>),
         out |-> <<"--- To-Do List ---", "------------------">> ]

\* mark_completed that flips the flag instead of setting it.
mark_completed_toggle(tasks, file, task_index, wfail) ==
  IF InRange(Len(tasks), task_index - 1)
  THEN LET q      == PyPos(Len(tasks), task_index - 1)
           marked == [tasks EXCEPT ![q].completed = ~tasks[q].completed]
           sv     == save_tasks(marked, file, wfail)
       IN  [ tasks |-> marked, file |-> sv.file, saving |-> TRUE,
             out |-> sv.out \o <<"Marked task as completed">> ]
  ELSE [ tasks |-> tasks, file |-> file, saving |-> FALSE,
         out |-> <<"Error: Invalid task number">> ]

\* mark_completed that marks every task up to the one asked for.
mark_completed_upto(tasks, file, task_index, wfail) ==
  IF InRange(Len(tasks), task_index - 1)
  THEN LET q      == PyPos(Len(tasks), task_index - 1)
           marked == [ i \in 1..Len(tasks) |->
                         IF i <= q THEN [tasks[i] EXCEPT !.completed = TRUE]
                         ELSE tasks[i] ]
           sv     == save_tasks(marked, file, wfail)
       IN  [ tasks |-> marked, file |-> sv.file, saving |-> TRUE,
             out |-> sv.out \o <<"Marked task as completed">> ]
  ELSE [ tasks |-> tasks, file |-> file, saving |-> FALSE,
         out |-> <<"Error: Invalid task number">> ]

\* mark_completed (lines 92-100): self.tasks[task_index - 1] with Python's
\* indexing (an index of -1 is the last element), set completed, save,
\* print; an IndexError is caught and printed.
mark_completed(tasks, file, task_index, wfail) ==
  IF InRange(Len(tasks), task_index - 1)
  THEN LET q      == PyPos(Len(tasks), task_index - 1)
           marked == [tasks EXCEPT ![q].completed = TRUE]
           sv     == save_tasks(marked, file, wfail)
       IN  [ tasks |-> marked, file |-> sv.file, saving |-> TRUE,
             out |-> sv.out \o <<"Marked task as completed">> ]
  ELSE [ tasks |-> tasks, file |-> file, saving |-> FALSE,
         out |-> <<"Error: Invalid task number">> ]

\* delete_task that pops the element after the one asked for.
delete_task_offbyone(tasks, file, task_index, wfail) ==
  IF InRange(Len(tasks), task_index - 1)
  THEN LET q      == PyPos(Len(tasks), task_index - 1)
           r      == IF q < Len(tasks) THEN q + 1 ELSE q
           popped == Pop(tasks, r)
           sv     == save_tasks(popped, file, wfail)
       IN  [ tasks |-> popped, file |-> sv.file, saving |-> TRUE,
             out |-> sv.out \o <<"Deleted task">> ]
  ELSE [ tasks |-> tasks, file |-> file, saving |-> FALSE,
         out |-> <<"Error: Invalid task number">> ]

\* delete_task (lines 102-109): self.tasks.pop(task_index - 1) with
\* Python's indexing, save, print; an IndexError is caught and printed.
delete_task(tasks, file, task_index, wfail) ==
  IF InRange(Len(tasks), task_index - 1)
  THEN LET q      == PyPos(Len(tasks), task_index - 1)
           popped == Pop(tasks, q)
           sv     == save_tasks(popped, file, wfail)
       IN  [ tasks |-> popped, file |-> sv.file, saving |-> TRUE,
             out |-> sv.out \o <<"Deleted task">> ]
  ELSE [ tasks |-> tasks, file |-> file, saving |-> FALSE,
         out |-> <<"Error: Invalid task number">> ]

\* --------------------------------------------------------------- inputs
\* The calls of add_task: (description, due_date, priority), and the minute
\* datetime.now() returns to the call.
AddInputs ==
  { <<"Buy milk", "2024-01-10", 1, 0>>,
    <<"", None, 7, 1>> }

\* The minutes datetime.now() returns to the calls of load_tasks.
Minutes == {0, 1}

\* task_index arguments: 0, every position and one past the longest list.
Positions == 0..(MaxTasks + 1)

\* priority_filter arguments: None or a priority.
Filters == {NoFilter, 1, 2, 3}

\* Outcomes of the write of save_tasks.
WriteOutcomes == {"none", "open", "write"}

\* Records found in the file of an earlier run, and the file contents a run
\* may start on: no file, text that is not JSON, a JSON number, and lists
\* -- empty, of one full record (with a priority outside 1..3), and with a
\* second element that lacks 'description' or is not an object, after a
\* first record that is full or lacks only 'created_at'.
Stored ==
  [ description |-> "Call mom", due_date |-> "2024-02-01", priority |-> 9,
    completed |-> TRUE, created_at |-> "2023-12-31 18:30" ]

InitFiles ==
  { AbsentFile, GarbageFile, ScalarFile,
    ListFile(<< >>),
    ListFile(<< Partial(Stored, Fields) >>),
    ListFile(<< Partial(Stored, Fields), Partial(Stored, Fields \ {"description"}) >>),
    ListFile(<< Partial(Stored, Fields \ {"created_at"}), NotADict >>) }

\* ---------------------------------------------------------------- state
VARIABLES
  tasks,   \* self.tasks of the TodoList
  file,    \* content of self.filename
  fails,   \* I/O failures injected so far
  alive,   \* a TodoList object exists (its constructor returned)
  op,      \* the last call: its name and arguments, what it printed, the
           \* lines view_tasks listed, the exception that escaped it
  lag,     \* history of the saves of this store since it was loaded:
           \* "failed" the last save_tasks failed, "healed" the last one
           \* succeeded after one that failed, "none" otherwise
  pw       \* the run of the password generator of src/cal.py

vars == <<tasks, file, fails, alive, op, lag, pw>>

\* The password generator when it is not run.
PwIdle ==
  [ pc |-> "idle", length |-> 0, options |-> << >>, retries |-> 0,
    pool |-> << >>, password |-> << >>, i |-> 0, out |-> << >>,
    raised |-> "none" ]

Called(name, args, out, listed, raised) ==
  [ name |-> name, args |-> args, out |-> out, listed |-> listed,
    raised |-> raised ]

\* Before the program runs: no object, some file content on disk.
Init ==
  /\ tasks = << >>
  /\ file \in InitFiles
  /\ fails = 0
  /\ alive = FALSE
  /\ op = Called("start", << >>, << >>, << >>, "none")
  /\ lag = "none"
  /\ pw = PwIdle

\* The history of saves after a call: saving tells whether it reached
\* save_tasks, wfail how the write ended.
Lag(saving, wfail) ==
  IF ~saving THEN lag
  ELSE IF wfail # "none" THEN "failed"
  ELSE IF lag = "failed" THEN "healed" ELSE lag

\* Whether the environment may inject this outcome, and the new count.
MayFail(failed) == failed => fails < MaxFails
Count(failed) == IF failed THEN fails + 1 ELSE fails

\* TodoList.__init__ (lines 56-60), a new run of the program on the same
\* file: tasks = [] and load_tasks(). An exception escaping load_tasks
\* escapes the constructor, and no object exists.
ConstructStep(t, rfail) ==
  LET r == load_tasks(<< >>, file, t, rfail) IN
  /\ MayFail(rfail)
  /\ rfail => file.kind # "absent"
  /\ tasks' = r.tasks
  /\ fails' = Count(rfail)
  /\ alive' = (r.raised = "none")
  /\ op' = Called("construct", << >>, r.out, << >>, r.raised)
  /\ lag' = "none"
  /\ UNCHANGED <<file, pw>>

Construct == \E t \in Minutes, rfail \in BOOLEAN : ConstructStep(t, rfail)

\* load_tasks() called on the live store.
LoadStep(t, rfail) ==
  LET r == load_tasks(tasks, file, t, rfail) IN
  /\ alive
  /\ MayFail(rfail)
  /\ rfail => file.kind # "absent"
  /\ tasks' = r.tasks
  /\ fails' = Count(rfail)
  /\ op' = Called("load", << >>, r.out, << >>, r.raised)
  /\ lag' = IF file.kind = "absent" \/ r.out # << >> THEN lag ELSE "none"
  /\ UNCHANGED <<file, alive, pw>>

Load == \E t \in Minutes, rfail \in BOOLEAN : LoadStep(t, rfail)

\* save_tasks() called on the live store.
SaveStep(wfail) ==
  LET r == save_tasks(tasks, file, wfail) IN
  /\ alive
  /\ MayFail(wfail # "none")
  /\ file' = r.file
  /\ fails' = Count(wfail # "none")
  /\ op' = Called("save", << >>, r.out, << >>, "none")
  /\ lag' = Lag(TRUE, wfail)
  /\ UNCHANGED <<tasks, alive, pw>>

Save == \E wfail \in WriteOutcomes : SaveStep(wfail)

\* add_task(description, due_date=..., priority=...).
AddStep(inp, wfail) ==
  LET r == add_task(tasks, file, inp[1], inp[2], inp[3], inp[4], wfail) IN
  /\ alive
  /\ Len(tasks) < MaxTasks
  /\ MayFail(wfail # "none")
  /\ tasks' = r.tasks
  /\ file' = r.file
  /\ fails' = Count(wfail # "none")
  /\ op' = Called("add", <<inp[1], inp[2], inp[3]>>, r.out, << >>, "none")
  /\ lag' = Lag(r.saving, wfail)
  /\ UNCHANGED <<alive, pw>>

Add == \E inp \in AddInputs, wfail \in WriteOutcomes : AddStep(inp, wfail)

\* view_tasks(show_completed, priority_filter). It makes no call of
\* save_tasks, so the file is not written.
ViewStep(show, filt) ==
  LET r == view_tasks(tasks, show, filt) IN
  /\ alive
  /\ tasks' = r.tasks
  /\ op' = Called("view", <<show, filt>>, r.out, r.listed, "none")
  /\ UNCHANGED <<file, fails, alive, lag, pw>>

View == \E show \in BOOLEAN, filt \in Filters : ViewStep(show, filt)

\* mark_completed(task_index). The write outcome matters only when
\* save_tasks is reached.
CompleteStep(p, wfail) ==
  LET r == mark_completed(tasks, file, p, wfail) IN
  /\ alive
  /\ IF r.saving THEN MayFail(wfail # "none") ELSE wfail = "none"
  /\ tasks' = r.tasks
  /\ file' = r.file
  /\ fails' = Count(wfail # "none")
  /\ op' = Called("complete", <<p>>, r.out, << >>, "none")
  /\ lag' = Lag(r.saving, wfail)
  /\ UNCHANGED <<alive, pw>>

Complete == \E p \in Positions, wfail \in WriteOutcomes : CompleteStep(p, wfail)

\* delete_task(task_index).
DeleteStep(p, wfail) ==
  LET r == delete_task(tasks, file, p, wfail) IN
  /\ alive
  /\ IF r.saving THEN MayFail(wfail # "none") ELSE wfail = "none"
  /\ tasks' = r.tasks
  /\ file' = r.file
  /\ fails' = Count(wfail # "none")
  /\ op' = Called("delete", <<p>>, r.out, << >>, "none")
  /\ lag' = Lag(r.saving, wfail)
  /\ UNCHANGED <<alive, pw>>

Delete == \E p \in Positions, wfail \in WriteOutcomes : DeleteStep(p, wfail)

Next == Construct \/ Load \/ Save \/ Add \/ View \/ Complete \/ Delete

Spec == Init /\ [][Next]_vars

\* --------------------------------------------------------------- claims
\* m is among the lines a call printed.
Printed(out, m) == \E i \in 1..Len(out) : out[i] = m

Mutators == {"add", "complete", "delete"}

\* The last call reached save_tasks and the write succeeded.
SavedOk ==
  /\ op.name \in Mutators
  /\ ~Printed(op.out, "Error: Invalid task number")
  /\ ~Printed(op.out, "Error saving tasks")

\* The file is a list of full records equal, field for field and in order,
\* to the tasks in memory.
FileHoldsTasks ==
  /\ file.kind = "list"
  /\ Len(file.items) = Len(tasks)
  /\ \A i \in 1..Len(tasks) :
       /\ file.items[i].isdict
       /\ file.items[i].keys = Fields
       /\ \A f \in Fields : file.items[i].val[f] = tasks[i][f]

\* C1 (as claimed): mark_completed(p) and delete_task(p) with p outside
\* [1, N] print the 'Invalid task number' error and leave the task list and
\* the file as they were.
C1_InvalidPositionRejected ==
  [][ \A p \in Positions, w \in WriteOutcomes :
        (p \notin 1..Len(tasks) /\ (CompleteStep(p, w) \/ DeleteStep(p, w)))
          => /\ tasks' = tasks
             /\ file' = file
             /\ Printed(op'.out, "Error: Invalid task number") ]_vars

\* C2: after add_task, mark_completed or delete_task whose save did not
\* fail, the file holds exactly the in-memory list: same length, same
\* order, the same five fields for every task.
C2_FileEqualsMemoryAfterSave == SavedOk => FileHoldsTasks

C2_Witness ==
  /\ op.name = "complete" /\ SavedOk
  /\ Len(tasks) = 2
  /\ tasks[2].completed /\ ~tasks[1].completed
  /\ fails = 1
  /\ FileHoldsTasks

\* C3: saving the list of a live store and loading the saved file into a
\* fresh store, at any minute, gives back the same list: every field of
\* every task, created_at included, in the same order.
C3_SaveLoadRoundTrip ==
  alive =>
    \A t \in Minutes :
      LET saved  == save_tasks(tasks, file, "none").file
          loaded == load_tasks(<< >>, saved, t, FALSE)
      IN  loaded.raised = "none" /\ loaded.tasks = tasks

C3_Witness ==
  /\ alive /\ op.name \in Mutators
  /\ Len(tasks) = 2
  /\ tasks[1].completed
  /\ tasks[1].created_at # tasks[2].created_at
  /\ \E t \in Minutes : strftime(t) \notin {tasks[1].created_at, tasks[2].created_at}

\* C4 (as claimed): whenever load_tasks fails, by a printed load error or
\* by an exception, the task list is empty afterwards.
C4_FailedLoadLeavesEmpty ==
  ( /\ op.name \in {"construct", "load"}
    /\ (op.raised # "none" \/ Printed(op.out, "Error loading tasks")) )
    => tasks = << >>

\* C5: when the save of add_task, mark_completed or delete_task fails, the
\* task list holds the mutation, nothing else of it changed, and the call
\* printed the save error.
C5_FailedSaveKeepsMutation ==
  [][ \A w \in WriteOutcomes \ {"none"} :
        /\ \A inp \in AddInputs :
             (op'.name = "add" /\ AddStep(inp, w)) =>
               /\ Len(tasks') = Len(tasks) + 1
               /\ SubSeq(tasks', 1, Len(tasks)) = tasks
               /\ tasks'[Len(tasks')].description = inp[1]
               /\ Printed(op'.out, "Error saving tasks")
        /\ \A p \in 1..Len(tasks) :
             (op'.name = "complete" /\ CompleteStep(p, w)) =>
               /\ Len(tasks') = Len(tasks)
               /\ tasks'[p].completed
               /\ \A q \in 1..Len(tasks) : q # p => tasks'[q] = tasks[q]
               /\ Printed(op'.out, "Error saving tasks")
        /\ \A p \in 1..Len(tasks) :
             (op'.name = "delete" /\ DeleteStep(p, w)) =>
               /\ Len(tasks') = Len(tasks) - 1
               /\ \A q \in 1..Len(tasks') :
                    tasks'[q] = IF q < p THEN tasks[q] ELSE tasks[q + 1]
               /\ Printed(op'.out, "Error saving tasks") ]_vars

C5_Witness ==
  /\ op.name = "add"
  /\ Printed(op.out, "Error saving tasks")
  /\ Len(tasks) = 2
  /\ tasks[2].description = op.args[1]
  /\ ~FileHoldsTasks

\* C6: delete_task(p) with 1 <= p <= N leaves N-1 tasks: those before p
\* where they were, those after p one position lower, none changed.
C6_DeleteShiftsDown ==
  [][ \A p \in 1..Len(tasks), w \in WriteOutcomes :
        (op'.name = "delete" /\ DeleteStep(p, w)) =>
          /\ Len(tasks') = Len(tasks) - 1
          /\ \A q \in 1..(p - 1) : tasks'[q] = tasks[q]
          /\ \A q \in (p + 1)..Len(tasks) : tasks'[q - 1] = tasks[q] ]_vars

C6_Witness ==
  /\ op.name = "delete" /\ op.args = <<1>>
  /\ Printed(op.out, "Deleted task")
  /\ Len(tasks) = MaxTasks - 1
  /\ file.kind = "list" /\ Len(file.items) = Len(tasks)

\* C7: add_task(description, due_date, priority) on N tasks appends one
\* task at N+1, not completed, with the given description and due date and
\* with the given priority when it is 1, 2 or 3 and 2 otherwise; tasks
\* 1..N are unchanged and view_tasks(show_completed=True) lists one more.
C7_AddAppendsOne ==
  [][ \A inp \in AddInputs, w \in WriteOutcomes :
        AddStep(inp, w) =>
          LET n == Len(tasks) IN
          /\ Len(tasks') = n + 1
          /\ SubSeq(tasks', 1, n) = tasks
          /\ tasks'[n + 1].description = inp[1]
          /\ tasks'[n + 1].due_date = inp[2]
          /\ tasks'[n + 1].priority = (IF inp[3] \in {1, 2, 3} THEN inp[3] ELSE 2)
          /\ tasks'[n + 1].completed = FALSE
          /\ Len(view_tasks(tasks', TRUE, NoFilter).listed)
               = Len(view_tasks(tasks, TRUE, NoFilter).listed) + 1 ]_vars

C7_Witness ==
  /\ op.name = "add" /\ op.args[3] = 7
  /\ Len(tasks) = 2
  /\ tasks[2].priority = 2 /\ ~tasks[2].completed
  /\ tasks[1].priority = 1

\* C8 (as claimed): add_task with an empty description changes neither
\* the task list nor the file.
C8_EmptyDescriptionRejected ==
  [][ \A inp \in AddInputs, w \in WriteOutcomes :
        (inp[1] = "" /\ AddStep(inp, w)) => (tasks' = tasks /\ file' = file) ]_vars

\* C9: mark_completed(p), for a valid p, called right after a
\* mark_completed(p) whose save succeeded, and saving itself, changes
\* neither the task list nor the file, leaves task p completed and prints
\* no error.
C9_CompleteIdempotent ==
  [][ \A p \in 1..Len(tasks) :
        ( /\ op.name = "complete" /\ op.args = <<p>>
          /\ ~Printed(op.out, "Error saving tasks")
          /\ CompleteStep(p, "none") )
          => /\ tasks' = tasks
             /\ file' = file
             /\ tasks'[p].completed
             /\ op'.out = <<"Marked task as completed">> ]_vars

C9_Witness ==
  /\ op.name = "complete" /\ op.args = <<1>>
  /\ op.out = <<"Marked task as completed">>
  /\ Len(tasks) = 2
  /\ tasks[1].completed /\ ~tasks[2].completed
  /\ FileHoldsTasks

\* C10: view_tasks(show_completed, priority_filter) lists exactly the tasks
\* that are (shown when completed, or not completed) and (of the filtered
\* priority, or no filter), in list order, each numbered with its position
\* in the whole list.
Kept(show, filt) ==
  { i \in 1..Len(tasks) :
      /\ show \/ ~tasks[i].completed
      /\ filt = NoFilter \/ tasks[i].priority = filt }

C10_ViewFilters ==
  op.name = "view" =>
    LET keep == Kept(op.args[1], op.args[2]) IN
    /\ Len(op.listed) = Cardinality(keep)
    /\ \A k \in 1..Len(op.listed) :
         /\ op.listed[k][1] \in keep
         /\ op.listed[k][2] = tasks[op.listed[k][1]]
         /\ k > 1 => op.listed[k - 1][1] < op.listed[k][1]

C10_Witness ==
  /\ op.name = "view" /\ op.args = <<FALSE, 1>>
  /\ Len(tasks) = 2
  /\ tasks[1].priority = 1 /\ tasks[2].priority = 1
  /\ tasks[1].completed /\ ~tasks[2].completed
  /\ op.listed = << <<2, tasks[2]>> >>

\* C11: every task of the store, in every state, has a priority in
\* {1, 2, 3}: a priority outside it given to add_task or found in a loaded
\* record became 2, and neither the add nor the load raised for it.
C11_PriorityInDomain ==
  /\ \A i \in 1..Len(tasks) : tasks[i].priority \in {1, 2, 3}
  /\ op.name = "add" => op.raised = "none"
  /\ ( /\ op.name \in {"construct", "load"}
       /\ file = ListFile(<< Partial(Stored, Fields) >>)
       /\ ~Printed(op.out, "Error loading tasks") )
       => (op.raised = "none" /\ Len(tasks) = 1 /\ tasks[1].priority = 2)

C11_Witness ==
  /\ op.name = "add" /\ op.args[3] = 7
  /\ Len(tasks) = 2
  /\ tasks[1].description = Stored.description /\ Stored.priority = 9
  /\ tasks[1].priority = 2
  /\ tasks[2].priority = 2

\* C13 (as claimed): no call lets an exception escape: for every position,
\* write failure, read failure and file content, it returns to its caller.
C13_NoEscapingException == op.raised = "none"

\* C12: constructing a TodoList when the file does not exist gives an empty
\* task list, prints nothing, raises nothing and leaves the file absent;
\* calls that do not write (load_tasks, view_tasks, a rejected position)
\* leave it absent too, and the first add, complete or delete whose save
\* succeeds creates it.
C12_MissingFileIsNotAnError ==
  [][ file.kind = "absent" =>
        /\ op'.name = "construct" =>
             /\ alive' /\ tasks' = << >>
             /\ op'.out = << >> /\ op'.raised = "none"
             /\ file'.kind = "absent"
        /\ op'.name \in {"load", "view"} => file'.kind = "absent"
        /\ (op'.name \in Mutators /\ Printed(op'.out, "Error: Invalid task number"))
             => file'.kind = "absent"
        /\ (op'.name \in Mutators /\ SavedOk') => file'.kind = "list" ]_vars

C12_Witness ==
  /\ op.name = "construct"
  /\ file.kind = "absent"
  /\ alive /\ tasks = << >>
  /\ op.out = << >>

\* C14: mark_completed(p) with 1 <= p <= N changes nothing but the
\* completed flag of task p: its description, due date, priority and
\* created_at, every other task, the length and the order stay.
C14_CompleteChangesOnlyFlag ==
  [][ \A p \in 1..Len(tasks), w \in WriteOutcomes :
        (op'.name = "complete" /\ CompleteStep(p, w)) =>
          /\ Len(tasks') = Len(tasks)
          /\ tasks'[p] = [tasks[p] EXCEPT !.completed = TRUE]
          /\ \A q \in 1..Len(tasks) : q # p => tasks'[q] = tasks[q] ]_vars

C14_Witness ==
  /\ op.name = "complete" /\ op.args = <<2>>
  /\ Len(tasks) = 2
  /\ tasks[2].completed /\ ~tasks[1].completed
  /\ tasks[2].description = "" /\ tasks[2].priority = 2
  /\ tasks[2].due_date = None
  /\ tasks[2].created_at = strftime(1)

\* C15: view_tasks, for every show_completed and priority_filter, leaves
\* the task list and the file as they were, also on an empty list and
\* when it lists nothing.
C15_ViewChangesNothing ==
  [][ \A show \in BOOLEAN, filt \in Filters :
        (op'.name = "view" /\ ViewStep(show, filt)) =>
          (tasks' = tasks /\ file' = file) ]_vars

C15_Witness ==
  /\ op.name = "view" /\ op.args = <<FALSE, 2>>
  /\ Len(tasks) = 2
  /\ tasks[1].priority = 2 /\ tasks[1].completed
  /\ tasks[2].priority = 1
  /\ op.listed = << >>
  /\ FileHoldsTasks

\* C16: a completed task stays completed. add_task, mark_completed,
\* save_tasks and view_tasks leave every completed task completed at its
\* position; so does a load (by a new TodoList or by load_tasks) of the
\* file when it holds the saved list; delete_task leaves completed every
\* task it does not remove, at its old position before the removed one
\* and one lower after it.
StaysCompleted(before, after) ==
  \A i \in 1..Len(before) :
    (i <= Len(after) /\ before[i].completed) => after[i].completed

C16_CompletedStaysCompleted ==
  [][ /\ op'.name \in {"add", "complete", "save", "view"}
           => (Len(tasks') >= Len(tasks) /\ StaysCompleted(tasks, tasks'))
      /\ ( /\ op'.name \in {"construct", "load"}
           /\ FileHoldsTasks
           /\ op'.raised = "none"
           /\ ~Printed(op'.out, "Error loading tasks") )
           => (Len(tasks') = Len(tasks) /\ StaysCompleted(tasks, tasks'))
      /\ \A p \in Positions :
           ( /\ op'.name = "delete" /\ op'.args = <<p>>
             /\ InRange(Len(tasks), p - 1) )
           => LET r == PyPos(Len(tasks), p - 1) IN
              /\ Len(tasks') = Len(tasks) - 1
              /\ \A i \in 1..Len(tasks) :
                   tasks[i].completed =>
                     /\ i < r => tasks'[i].completed
                     /\ i > r => tasks'[i - 1].completed ]_vars

C16_Witness ==
  /\ op.name = "construct" /\ op.raised = "none" /\ op.out = << >>
  /\ alive
  /\ Len(tasks) = 2
  /\ tasks[2].completed /\ tasks[2].description = "Buy milk"
  /\ ~tasks[1].completed
  /\ FileHoldsTasks

\* C17: when the file does not hold the task list in memory, as after a
\* failed save, the next add_task, mark_completed or delete_task whose
\* save succeeds leaves the file holding the whole list in memory, the
\* changes whose save had failed included.
C17_NextSaveHeals ==
  [][ ( /\ alive
        /\ ~FileHoldsTasks
        /\ op'.name \in Mutators
        /\ SavedOk' )
        => FileHoldsTasks' ]_vars

\* A save of this store failed, and the last call, a later one, saved.
C17_Witness ==
  /\ lag = "healed"
  /\ op.name = "complete" /\ op.args = <<2>> /\ SavedOk
  /\ Len(tasks) = 2
  /\ tasks[1].description = Stored.description
  /\ tasks[2].description = "Buy milk" /\ tasks[2].completed
  /\ FileHoldsTasks

\* ------------------------------------------- the password generator
\* src/cal.py: main runs get_password_length, get_character_options,
\* generate_character_pool and generate_password in that order, then asks
\* whether to go round again.

\* The lengths get_password_length accepts (line 20).
MinLength == 8
MaxLength == 64
\* The accepted lengths typed go from MinLength to MinLength + MaxOver.
MaxOver == 0
\* random's integer below n is drawn among the MaxDraw smallest values and
\* the largest one.
MaxDraw == 1
\* Most lines typed at the length prompts of one call before the input ends.
MaxLines == 3
\* Most answers typed at the prompts of one call of get_character_options
\* before the input ends.
MaxAnswers == 5
\* The most digits int() reads (sys.int_max_str_digits as Python sets it).
MaxStrDigits == 4300

\* The sequences of at most n elements of S.
UpTo(S, n) == UNION { [1..k -> S] : k \in 0..n }

\* string.ascii_lowercase, string.ascii_uppercase, string.digits and the
\* special characters of line 66, as lists of characters.
ascii_lowercase ==
  <<"a", "b", "c", "d", "e", "f", "g", "h", "i", "j", "k", "l", "m",
    "n", "o", "p", "q", "r", "s", "t", "u", "v", "w", "x", "y", "z">>
ascii_uppercase ==
  <<"A", "B", "C", "D", "E", "F", "G", "H", "I", "J", "K", "L", "M",
    "N", "O", "P", "Q", "R", "S", "T", "U", "V", "W", "X", "Y", "Z">>
digits == <<"0", "1", "2", "3", "4", "5", "6", "7", "8", "9">>
specials == <<"!", "@", "#", "$", "%", "^", "&", "*", "(", ")", "-", "_", "=", "+">>

\* random's _randbelow(n): the integers of 0..n-1 it may return.
randbelow(n) == { k \in 0..(n - 1) : k < MaxDraw \/ k = n - 1 }

\* A line typed at the length prompt is a sequence of characters, each
\* one its Unicode code point: 56 is "8", 9 the tab, 95 the underscore.

\* The characters str.strip() takes for white space, and those int()
\* takes: the same but for the four separators 28 to 31.
Whitespace ==
  { 9, 10, 11, 12, 13, 28, 29, 30, 31, 32, 133, 160, 5760 }
    \cup (8192..8202) \cup { 8232, 8233, 8239, 8287, 12288 }
IntWhitespace == Whitespace \ (28..31)

\* A sequence without its leading, and without its trailing, elements of W.
ltrim(s, W) ==
  IF \A k \in 1..Len(s) : s[k] \in W THEN << >>
  ELSE SubSeq(s, CHOOSE k \in 1..Len(s) :
                   s[k] \notin W /\ \A j \in 1..(k - 1) : s[j] \in W,
              Len(s))
rtrim(s, W) ==
  IF \A k \in 1..Len(s) : s[k] \in W THEN << >>
  ELSE SubSeq(s, 1, CHOOSE k \in 1..Len(s) :
                      s[k] \notin W /\ \A j \in (k + 1)..Len(s) : s[j] \in W)

\* str.strip(): the line without its leading and trailing white space.
lstrip(s) == ltrim(s, Whitespace)
rstrip(s) == rtrim(s, Whitespace)
strip(s) == rstrip(lstrip(s))

\* The digit zero of every script: the decimal digits int() reads are the
\* ten characters from each of them on, "0" to "9" from 48.
DecimalZeros ==
  { 48, 1632, 1776, 1984, 2406, 2534, 2662, 2790, 2918, 3046, 3174, 3302,
    3430, 3558, 3664, 3792, 3872, 4160, 4240, 6112, 6160, 6470, 6608, 6784,
    6800, 6992, 7088, 7232, 7248, 42528, 43216, 43264, 43472, 43504, 43600,
    44016, 65296, 66720, 68912, 69734, 69872, 69942, 70096, 70384, 70736,
    70864, 71248, 71360, 71472, 71904, 72016, 72784, 73040, 73120, 92768,
    92864, 93008, 120782, 120792, 120802, 120812, 120822, 123200, 123632,
    125264, 130032 }

\* Whether a character is a decimal digit, and its value.
IsDigit(c) == \E z \in DecimalZeros : z <= c /\ c <= z + 9
DigitValue(c) == c - (CHOOSE z \in DecimalZeros : z <= c /\ c <= z + 9)

\* Whether the characters after the sign write a number for int(): decimal
\* digits, with single underscores between digits only, and no more than
\* MaxStrDigits digits.
WellFormed(body) ==
  /\ Len(body) > 0
  /\ Cardinality({ k \in 1..Len(body) : IsDigit(body[k]) }) <= MaxStrDigits
  /\ \A k \in 1..Len(body) : IsDigit(body[k]) \/ body[k] = 95
  /\ IsDigit(body[1]) /\ IsDigit(body[Len(body)])
  /\ \A k \in 1..(Len(body) - 1) : ~(body[k] = 95 /\ body[k + 1] = 95)

\* The number a sequence of digit values writes.
RECURSIVE Number(_)
Number(d) ==
  IF Len(d) = 0 THEN 0
  ELSE 10 * Number(SubSeq(d, 1, Len(d) - 1)) + d[Len(d)]

\* Whether a character of a number is a digit of it, not an underscore.
NotUnderscore(c) == c # 95

\* The number the digits of a sequence write: its underscores are skipped,
\* and the zeros it begins with add nothing.
Decimal(s) ==
  LET ds     == SelectSeq(s, NotUnderscore)
      values == [k \in 1..Len(ds) |-> DigitValue(ds[k])]
  IN  Number(ltrim(values, {0}))

\* int(s): white space around it dropped, an optional sign and a well
\* formed number give its value, anything else a ValueError.
int(s) ==
  LET t      == rtrim(ltrim(s, IntWhitespace), IntWhitespace)
      signed == Len(t) > 0 /\ t[1] \in {43, 45}
      body   == IF signed THEN Tail(t) ELSE t
  IN  IF WellFormed(body)
      THEN [ raised |-> "none",
             value  |-> IF signed /\ t[1] = 45 THEN 0 - Decimal(body)
                        ELSE Decimal(body) ]
      ELSE [ raised |-> "ValueError", value |-> 0 ]

\* The decimal digits of a natural number, as the user types it.
RECURSIVE str(_)
str(n) ==
  IF n < 10 THEN <<48 + n>>
  ELSE str(n \div 10) \o <<48 + (n % 10)>>

\* The lines typed at the length prompt: the accepted lengths explored and
\* the numbers next to the two ends of the range; MinLength after a tab and
\* before a blank, negative, after a zero and an underscore, before an
\* underscore, and as the Arabic-Indic digit; a word and an empty line.
TypedLengths ==
  { str(n) : n \in (MinLength - 1)..(MinLength + MaxOver) }
    \cup { str(MaxLength + 1),
           <<9>> \o str(MinLength) \o <<32>>,
           <<45>> \o str(MinLength),
           <<48, 95>> \o str(MinLength),
           str(MinLength) \o <<95>>,
           <<1632 + MinLength>>,
           <<97, 98, 99>>,
           << >> }

\* The while loop of get_password_length (lines 16-24) on the lines typed,
\* from line i on. When input() has no more lines it raises EOFError.
RECURSIVE LengthLoop(_, _, _)
LengthLoop(typed, i, out) ==
  IF i > Len(typed)
  THEN [ length |-> 0, out |-> out, raised |-> "EOFError" ]
  ELSE LET n == int(strip(typed[i])) IN
       IF n.raised = "ValueError"
       THEN LengthLoop(typed, i + 1,
                       Append(out, "Invalid input! Please enter a number."))
       ELSE IF MinLength <= n.value /\ n.value <= MaxLength
       THEN [ length |-> n.value, out |-> out, raised |-> "none" ]
       ELSE LengthLoop(typed, i + 1,
                       Append(out, "Please enter a number between 8 and 64"))

\* get_password_length (lines 14-24) on the lines typed.
get_password_length(typed) == LengthLoop(typed, 1, << >>)

\* input() when the input has ended.
EndOfInput == "<EOF>"

\* What the user types at one yes/no prompt, and str.lower() of it.
Answers == {"", "n", "N", "y", "Y"}
AgainAnswers == {"", "n", "y", "Y", "yes", EndOfInput}
lower(a) == CASE a = "N" -> "n" [] a = "Y" -> "y" [] OTHER -> a

\* The options dict before the prompts, with lowercase disabled.
DefaultOptions_nolower ==
  [lowercase |-> FALSE, uppercase |-> TRUE, digits |-> TRUE, special |-> FALSE]

\* The options dict before the prompts (lines 29-34).
DefaultOptions ==
  [lowercase |-> TRUE, uppercase |-> TRUE, digits |-> TRUE, special |-> FALSE]

\* The three assignments from the prompts (lines 37-39 and 44-46); ans is
\* the answers typed at the uppercase, digits and special prompts. With
\* fewer than three answers the input ends at the next prompt, and the
\* assignments after it are not made.
Ask(options, ans) ==
  [options EXCEPT
     !.uppercase = IF Len(ans) >= 1 THEN lower(ans[1]) # "n" ELSE @,
     !.digits    = IF Len(ans) >= 2 THEN lower(ans[2]) # "n" ELSE @,
     !.special   = IF Len(ans) >= 3 THEN lower(ans[3]) = "y" ELSE @]

\* The answers the three prompts read, from answer i on.
Round(answers, i) ==
  SubSeq(answers, i, IF i + 2 <= Len(answers) THEN i + 2 ELSE Len(answers))

\* any(options.values())
AnyOption(options) ==
  options.lowercase \/ options.uppercase \/ options.digits \/ options.special

\* The while loop of lines 42-46: while no option is enabled, print the
\* error and ask the three prompts again; answers[i] is the next answer
\* typed, retries counts the passes. The loop has no other way out: when
\* input() has no more answers the pass raises EOFError.
RECURSIVE RetryLoop(_, _, _, _)
RetryLoop(options, answers, i, retries) ==
  IF AnyOption(options)
  THEN [ options |-> options, retries |-> retries, raised |-> "none" ]
  ELSE IF i + 2 > Len(answers)
  THEN [ options |-> Ask(options, Round(answers, i)),
         retries |-> retries + 1, raised |-> "EOFError" ]
  ELSE RetryLoop(Ask(options, Round(answers, i)), answers, i + 3, retries + 1)

\* get_character_options (lines 26-48) on the answers typed: input()
\* raises EOFError at the prompt that finds no answer.
get_character_options(answers) ==
  IF Len(answers) < 3
  THEN [ options |-> Ask(DefaultOptions, Round(answers, 1)),
         retries |-> 0, raised |-> "EOFError" ]
  ELSE RetryLoop(Ask(DefaultOptions, Round(answers, 1)), answers, 4, 0)

\* What get_character_options prints: its heading, and the error once for
\* each pass of the loop.
OptionsOut(retries) ==
  <<"Character Set Options:">>
    \o [k \in 1..retries |-> "Error: You must enable at least one character set!"]

\* generate_character_pool (lines 50-68): the enabled classes, in order.
generate_character_pool(options) ==
     (IF options.lowercase THEN ascii_lowercase ELSE << >>)
  \o (IF options.uppercase THEN ascii_uppercase ELSE << >>)
  \o (IF options.digits    THEN digits          ELSE << >>)
  \o (IF options.special   THEN specials        ELSE << >>)

\* x[i], x[j] = x[j], x[i] on 0-based positions of a list.
Swap(x, i, j) == [x EXCEPT ![i + 1] = x[j + 1], ![j + 1] = x[i + 1]]

\* Where generate_password goes when the shuffle has still to exchange
\* position i: random.shuffle runs i from len(x)-1 down to 1, and after it
\* the list is joined and returned.
AfterSwap(i) == IF i >= 1 THEN "shuffle" ELSE "done"

\* main has printed its banner (line 83); the todo list is not run.
InitPw ==
  /\ tasks = << >>
  /\ file = AbsentFile
  /\ fails = 0
  /\ alive = FALSE
  /\ op = Called("start", << >>, << >>, << >>, "none")
  /\ lag = "none"
  /\ pw = [PwIdle EXCEPT !.pc = "length",
                         !.out = <<"=== Password Generator ===">>]

todo == <<tasks, file, fails, alive, op, lag>>

\* length = get_password_length() (line 86) on the lines typed before
\* the input ends. An EOFError is not caught by main, which ends.
GetLength ==
  /\ pw.pc = "length"
  /\ \E typed \in UpTo(TypedLengths, MaxLines) :
       LET r == get_password_length(typed) IN
       pw' = IF r.raised = "none"
             THEN [PwIdle EXCEPT !.pc = "options", !.length = r.length,
                                 !.out = r.out]
             ELSE [PwIdle EXCEPT !.pc = "exit", !.out = r.out,
                                 !.raised = r.raised]
  /\ UNCHANGED todo

\* options = get_character_options() (line 87) on the answers typed before
\* the input ends. An EOFError is not caught by main, which ends.
GetOptions ==
  /\ pw.pc = "options"
  /\ \E answers \in UpTo(Answers, MaxAnswers) :
       LET r == get_character_options(answers) IN
       pw' = IF r.raised = "none"
             THEN [pw EXCEPT !.pc = "pool", !.options = r.options,
                             !.retries = r.retries,
                             !.out = OptionsOut(r.retries)]
             ELSE [PwIdle EXCEPT !.pc = "exit", !.retries = r.retries,
                                 !.out = OptionsOut(r.retries),
                                 !.raised = r.raised]
  /\ UNCHANGED todo

\* char_pool = generate_character_pool(options) (line 88), and the entry of
\* generate_password (line 72).
BuildPool ==
  /\ pw.pc = "pool"
  /\ pw' = [pw EXCEPT !.pc = IF pw.length > 0 THEN "choose"
                             ELSE AfterSwap(pw.length - 1),
                      !.pool = generate_character_pool(pw.options),
                      !.out = << >>]
  /\ UNCHANGED todo

\* One pass of the loop of generate_password (lines 73-75):
\* random.choice(char_pool), which is char_pool[randbelow(len(char_pool))]
\* and an IndexError on an empty pool that main does not catch. After the last pass the shuffle starts at the last position.
Choose ==
  /\ pw.pc = "choose"
  /\ IF Len(pw.pool) = 0
     THEN pw' = [pw EXCEPT !.pc = "exit", !.raised = "IndexError"]
     ELSE \E k \in randbelow(Len(pw.pool)) :
            pw' = [pw EXCEPT
                     !.password = Append(pw.password, pw.pool[k + 1]),
                     !.pc = IF Len(pw.password) + 1 < pw.length THEN "choose"
                            ELSE AfterSwap(pw.length - 1),
                     !.i  = IF Len(pw.password) + 1 < pw.length THEN 0
                            ELSE pw.length - 1]
  /\ UNCHANGED todo

\* One pass of the loop of random.shuffle (line 78): j = randbelow(i + 1)
\* and the exchange of x[i] and x[j]. After the pass for i = 1 the list is
\* joined into the string returned (line 79), one character per element.
Exchange ==
  /\ pw.pc = "shuffle"
  /\ \E j \in randbelow(pw.i + 1) :
       pw' = [pw EXCEPT !.password = Swap(pw.password, pw.i, j),
                        !.i = pw.i - 1,
                        !.pc = AfterSwap(pw.i - 1)]
  /\ UNCHANGED todo

\* The password is printed and "Generate another?" is asked (lines
\* 91-99): y starts the next round, any other answer ends main, and the
\* EOFError of an input that has ended is not caught.
Again ==
  /\ pw.pc = "done"
  /\ \E a \in AgainAnswers :
       pw' = IF a = EndOfInput
             THEN [PwIdle EXCEPT !.pc = "exit", !.raised = "EOFError",
                                 !.out = <<"Generated Password">>]
             ELSE IF lower(a) = "y"
             THEN [PwIdle EXCEPT !.pc = "length",
                                 !.out = <<"Generated Password">>]
             ELSE [PwIdle EXCEPT !.pc = "exit",
                                 !.out = <<"Generated Password", "Goodbye!">>]
  /\ UNCHANGED todo

NextPw == GetLength \/ GetOptions \/ BuildPool \/ Choose \/ Exchange \/ Again

SpecPw == InitPw /\ [][NextPw]_vars

\* C18: whatever the user answers, get_character_options never enters its
\* retry loop and lowercase stays enabled, the pool built from the options
\* is not empty, and generate_password returns a string of exactly
\* `length` characters, each one of the pool.
C18_PoolNonEmptyPasswordFromPool ==
  /\ pw.retries = 0
  /\ pw.raised # "IndexError"
  /\ pw.pc \in {"pool", "choose", "shuffle", "done"} => pw.options.lowercase
  /\ pw.pc \in {"choose", "shuffle", "done"} =>
       /\ Len(pw.pool) > 0
       /\ Len(pw.pool) >= Len(ascii_lowercase)
       /\ SubSeq(pw.pool, 1, Len(ascii_lowercase)) = ascii_lowercase
  /\ pw.pc = "done" =>
       /\ pw.length \in MinLength..MaxLength
       /\ Len(pw.password) = pw.length
       /\ \A i \in 1..Len(pw.password) :
            \E k \in 1..Len(pw.pool) : pw.pool[k] = pw.password[i]

\* A password of MinLength characters was returned from the pool of the
\* lowercase letters and the digits, its characters not all the same.
C18_Witness ==
  /\ pw.pc = "done"
  /\ pw.length = MinLength
  /\ ~pw.options.uppercase /\ pw.options.digits /\ ~pw.options.special
  /\ pw.pool = ascii_lowercase \o digits
  /\ pw.password[1] = "9"
  /\ pw.password[2] = "a"
  /\ pw.password[MinLength] = "a"
====
